---- MODULE Spec2Model ----
(***************************************************************************)
(* Model of AtomicSharedPtr.cpp: the ring-buffer atomic shared pointer     *)
(* (atomic_shared_ptr_with_ring) and the mutex baseline                    *)
(* (naive_atomic_shared_ptr_with_mutex).                                   *)
(*                                                                         *)
(* Every std::atomic operation of the source is one step of the thread     *)
(* that executes it (all of them use the default seq_cst ordering, so the  *)
(* interleaving of single atomic steps is exactly the set of executions).  *)
(* A handle (std::shared_ptr<T>) is modelled as <<value, tag>>: value is   *)
(* the pointee, tag tells apart the assign() calls that passed it.         *)
(***************************************************************************)
EXTENDS Integers, Sequences, FiniteSets, TLC

\* std::numeric_limits<int>::max() / 2
under_construction_label == 1073741823

\* default of the template parameter ring_size
default_ring_size == 4

\* writer_count of the benchmark
writer_count == 2

\* number of reader threads of the model
NumReaders == 1

\* number of operator= calls issued in the bounded concurrent model
MaxAssigns == 2

\* sequential model: largest ring size and number of operator= calls
MaxSeqRing == 5
MaxSeqAssigns == 5

\* std::numeric_limits<int>::max() and min(): the range of the write cursor
IntMax == 2147483647
IntMin == (-IntMax) - 1

\* a ring that has been in use for long: how many fetches before a wrap of
\* the write cursor the model may start, and how far past it the histories
\* of the rings whose slot sequence is not periodic are followed
MaxAged == 5
MaxCursor == 8

\* number of operator= calls in the concurrent history that precedes the call
\* that runs alone
MaxEarlier == 3

Writers == 1..writer_count
Readers == 1..NumReaders

\* std::make_shared<size_t>(0): the handle the container is constructed with
InitHandle == <<0, 0>>
\* a default-constructed (empty) std::shared_ptr
NullHandle == <<-1, 0>>

VARIABLES
    ring_size,              \* template parameter ring_size
    pointers,               \* std::array<std::shared_ptr<T>, ring_size>
    pointer_usage,          \* std::array<std::atomic<int>, ring_size>
    current_read_pointer,   \* std::atomic<int>
    current_write_pointer,  \* std::atomic<int> (see Cursor)
    wpc, idx, p, ncalls,    \* writer threads: position, local idx, argument p, calls issued
    rpc, ridx, result,      \* reader threads: position, local idx, local result
    sup, before, stale,     \* history: superseded handles (see NoteReturn)
    seen,                   \* history: handles published during a load (see NotePublished)
    solo,                   \* 0, or the only thread still running (see SoloSpec)
    mutex, pointer,         \* naive_atomic_shared_ptr_with_mutex: members
    mwpc, mrpc, mres,       \* its writer and reader threads: position, returned handle
    mlast, mexp,            \* history: last completed store, store expected by a load
    closed, published,      \* history: handle of the last closed window, of the last publication
    prev,                   \* history: the handle each reader's previous load returned
    lone, passes,           \* 0, or the writer that runs alone, and the passes of its call
    held                    \* history: each reader's net increments of every usage counter

ringvars == <<ring_size, pointers, pointer_usage, current_read_pointer, current_write_pointer>>
wvars == <<wpc, idx, p, ncalls>>
rvars == <<rpc, ridx, result>>
histvars == <<sup, before, stale, seen>>
cellvars == <<mutex, pointer, mwpc, mrpc, mres, mlast, mexp>>
auditvars == <<closed, published, prev, lone, passes, held>>
vars == <<ringvars, wvars, rvars, histvars, solo, cellvars, auditvars>>

Slots == 0..(ring_size - 1)

RECURSIVE SumCalls(_)
SumCalls(S) == IF S = {} THEN 0
               ELSE LET w == CHOOSE x \in S : TRUE IN ncalls[w] + SumCalls(S \ {w})

\* a writer is inside the exclusive-construction window of slot i
\* (after the compare-exchange of line 62 succeeded, before line 70)
InWindow(w, i) == wpc[w] \in {"write", "down"} /\ idx[w] = i

\* writer w is between its increment of pointer_usage[i] (line 51) and the
\* matching decrement (line 54, 63 or 74)
WHolds(w, i) == wpc[w] \in {"chk", "cas", "undo", "write", "down", "pub", "rel"} /\ idx[w] = i

\* reader r is between its increment of pointer_usage[i] (line 83) and the
\* matching decrement (line 86 or 91)
RHolds(r, i) == rpc[r] \in {"undo", "copy", "rel"} /\ ridx[r] = i

\* the threads that hold a provisional reference on slot i
Holders(i) == {<<"w", w>> : w \in {u \in Writers : WHolds(u, i)}}
              \cup {<<"r", r>> : r \in {u \in Readers : RHolds(u, i)}}

\* line 48, fetch_add(1) on a std::atomic<int>: the stored value wraps from
\* INT_MAX to INT_MIN
Wrap(c) == IF c = IntMax THEN IntMin ELSE c + 1

\* 2^64 modulo n and 2^32 modulo n
SizeMod(n) == LET m == 65536 % n IN (((m * m) % n) * ((m * m) % n)) % n
WordMod(n) == LET m == 65536 % n IN (m * m) % n

\* line 48, "% ring_size": the int returned by fetch_add is converted to
\* size_t (64 bit) before the remainder is taken, so a negative cursor c
\* counts as 2^64 + c
Slot(n, c) == IF c >= 0 THEN c % n ELSE ((c % n) + SizeMod(n)) % n

\* the stored cursor.  When n divides 2^32 (2, 4, ...) the slot of a cursor
\* value and of all its successors depends on the value modulo n only, across
\* both wraps, and the model keeps that residue; for any other n it
\* keeps the value itself.
Cursor(n, c) == IF WordMod(n) = 0 THEN Slot(n, c) ELSE c

\* the histories of a ring with a non-periodic slot sequence are followed
\* while the cursor is within MaxCursor fetches after a wrap
InReach(c) ==
    \/ (-MaxAged <= c /\ c <= MaxCursor)
    \/ c >= IntMax - MaxAged
    \/ c <= IntMin + MaxCursor

\* constructor (lines 39-41) and member initialisers (lines 97-100)
Construct(n) ==
    /\ ring_size = n
    /\ pointers = [i \in 0..(n - 1) |-> IF i = 0 THEN InitHandle ELSE NullHandle]
    /\ pointer_usage = [i \in 0..(n - 1) |-> 0]
    /\ current_read_pointer = 0
    /\ current_write_pointer = 1 % n

\* the ring after one thread has called operator= so often, one call after
\* another, that the cursor has reached c (every pass of such a history
\* short of a wrap is accepted): every slot holds a handle of these earlier
\* calls (tag 0), the published slot is the one of the last fetch, and no
\* operation is in flight
Aged(n, c) ==
    /\ ring_size = n
    /\ pointers = [i \in 0..(n - 1) |-> <<1, 0>>]
    /\ pointer_usage = [i \in 0..(n - 1) |-> 0]
    /\ current_read_pointer = Slot(n, c - 1)
    /\ current_write_pointer = Cursor(n, c)

\* the cursor values of the aged rings: shortly before each of the two wraps
AgedCursors == {-k : k \in 1..MaxAged} \cup {IntMax - k : k \in 0..(MaxAged - 1)}

\* constructor of the mutex cell (line 13)
ConstructCell ==
    /\ mutex = FALSE
    /\ pointer = InitHandle

Threads ==
    /\ wpc = [w \in Writers |-> "idle"]
    /\ idx = [w \in Writers |-> 0]
    /\ p = [w \in Writers |-> NullHandle]
    /\ ncalls = [w \in Writers |-> 0]
    /\ rpc = [r \in Readers |-> "idle"]
    /\ ridx = [r \in Readers |-> 0]
    /\ result = [r \in Readers |-> NullHandle]
    /\ mwpc = [w \in Writers |-> "idle"]
    /\ mrpc = [r \in Readers |-> "idle"]
    /\ mres = [r \in Readers |-> NullHandle]

History ==
    /\ sup = [v \in 0..writer_count |-> 0]
    /\ before = [w \in Writers |-> [v \in 0..writer_count |-> 0]]
    /\ stale = [r \in Readers |-> [v \in 0..writer_count |-> 0]]
    /\ seen = [r \in Readers |-> {}]
    /\ solo = 0
    /\ mlast = InitHandle
    /\ mexp = [r \in Readers |-> NullHandle]
    /\ closed = InitHandle
    /\ published = InitHandle
    /\ prev = [r \in Readers |-> NullHandle]
    /\ lone = 0
    /\ passes = 0
    /\ held = [r \in Readers |-> [i \in Slots |-> 0]]

Init == Construct(default_ring_size) /\ ConstructCell /\ Threads /\ History

-----------------------------------------------------------------------------
(* atomic_shared_ptr_with_ring::operator= : lines 43-77 *)

\* line 48: idx = current_write_pointer.fetch_add(1) % ring_size
Fetch(w) ==
    /\ idx' = [idx EXCEPT ![w] = Slot(ring_size, current_write_pointer)]
    /\ current_write_pointer' = Cursor(ring_size, Wrap(current_write_pointer))
    /\ wpc' = [wpc EXCEPT ![w] = "inc"]
    /\ UNCHANGED <<ring_size, pointers, pointer_usage, current_read_pointer, rvars>>

\* lines 120-123, 43-48: writer thread w calls operator= with a handle whose
\* value is the writer's identity (the tag counts the thread's calls) and
\* runs its first fetch_add
WCall(w, max) ==
    /\ wpc[w] = "idle"
    /\ SumCalls(Writers) < max
    /\ ncalls' = [ncalls EXCEPT ![w] = @ + 1]
    /\ p' = [p EXCEPT ![w] = <<w, ncalls[w] + 1>>]
    /\ Fetch(w)

\* lines 120-123, 43-48: the same call in a run of unboundedly many calls,
\* every one passing the writer's one handle (line 120) again; the calls are
\* not counted
WCallAgain(w) ==
    /\ wpc[w] = "idle"
    /\ p' = [p EXCEPT ![w] = <<w, 0>>]
    /\ Fetch(w)
    /\ UNCHANGED ncalls

\* lines 45-48: the next pass of for (;;)
WFetch(w) ==
    /\ wpc[w] = "fetch"
    /\ Fetch(w)
    /\ UNCHANGED <<p, ncalls>>

\* line 51: pointer_usage[idx].fetch_add(1)
WInc(w) ==
    /\ wpc[w] = "inc"
    /\ pointer_usage' = [pointer_usage EXCEPT ![idx[w]] = @ + 1]
    /\ wpc' = [wpc EXCEPT ![w] = "chk"]
    /\ UNCHANGED <<ring_size, pointers, current_read_pointer, current_write_pointer, idx, p, ncalls, rvars>>

\* line 53: if (idx == current_read_pointer)
WChk(w) ==
    /\ wpc[w] = "chk"
    /\ wpc' = [wpc EXCEPT ![w] = IF idx[w] = current_read_pointer THEN "undo" ELSE "cas"]
    /\ UNCHANGED <<ringvars, idx, p, ncalls, rvars>>

\* lines 54-56 and 63-65: pointer_usage[idx].fetch_sub(1); continue
\* (idx goes out of scope at the end of the pass)
WUndo(w) ==
    /\ wpc[w] = "undo"
    /\ pointer_usage' = [pointer_usage EXCEPT ![idx[w]] = @ - 1]
    /\ wpc' = [wpc EXCEPT ![w] = "fetch"]
    /\ idx' = [idx EXCEPT ![w] = 0]
    /\ UNCHANGED <<ring_size, pointers, current_read_pointer, current_write_pointer, p, ncalls, rvars>>

\* an unconditional exchange in place of the compare-exchange
WCasNoExpect(w) ==
    /\ wpc[w] = "cas"
    /\ pointer_usage' = [pointer_usage EXCEPT ![idx[w]] = under_construction_label + 1]
    /\ wpc' = [wpc EXCEPT ![w] = "write"]
    /\ UNCHANGED <<ring_size, pointers, current_read_pointer, current_write_pointer, idx, p, ncalls, rvars>>

\* a compare-exchange that installs the label without the thread's own count
WCasLabelOnly(w) ==
    /\ wpc[w] = "cas"
    /\ IF pointer_usage[idx[w]] = 1
       THEN /\ pointer_usage' = [pointer_usage EXCEPT ![idx[w]] = under_construction_label]
            /\ wpc' = [wpc EXCEPT ![w] = "write"]
       ELSE /\ pointer_usage' = pointer_usage
            /\ wpc' = [wpc EXCEPT ![w] = "undo"]
    /\ UNCHANGED <<ring_size, pointers, current_read_pointer, current_write_pointer, idx, p, ncalls, rvars>>

\* lines 61-62: compare_exchange_weak(expected = 1, under_construction_label + 1)
WCas(w) ==
    /\ wpc[w] = "cas"
    /\ IF pointer_usage[idx[w]] = 1
       THEN /\ pointer_usage' = [pointer_usage EXCEPT ![idx[w]] = under_construction_label + 1]
            /\ wpc' = [wpc EXCEPT ![w] = "write"]
       ELSE /\ pointer_usage' = pointer_usage
            /\ wpc' = [wpc EXCEPT ![w] = "undo"]
    /\ UNCHANGED <<ring_size, pointers, current_read_pointer, current_write_pointer, idx, p, ncalls, rvars>>

\* line 62: compare_exchange_weak may fail although the value equals expected
WCasSpurious(w) ==
    /\ wpc[w] = "cas"
    /\ pointer_usage[idx[w]] = 1
    /\ wpc' = [wpc EXCEPT ![w] = "undo"]
    /\ UNCHANGED <<ringvars, idx, p, ncalls, rvars>>

\* line 68: pointers[idx] = p
WWrite(w) ==
    /\ wpc[w] = "write"
    /\ pointers' = [pointers EXCEPT ![idx[w]] = p[w]]
    /\ wpc' = [wpc EXCEPT ![w] = "down"]
    /\ UNCHANGED <<ring_size, pointer_usage, current_read_pointer, current_write_pointer, idx, p, ncalls, rvars>>

\* a downgrade that gives up the thread's provisional reference as well
WDownAll(w) ==
    /\ wpc[w] = "down"
    /\ pointer_usage' = [pointer_usage EXCEPT ![idx[w]] = @ - under_construction_label - 1]
    /\ wpc' = [wpc EXCEPT ![w] = "pub"]
    /\ UNCHANGED <<ring_size, pointers, current_read_pointer, current_write_pointer, idx, p, ncalls, rvars>>

\* line 70: pointer_usage[idx].fetch_sub(under_construction_label)
WDown(w) ==
    /\ wpc[w] = "down"
    /\ pointer_usage' = [pointer_usage EXCEPT ![idx[w]] = @ - under_construction_label]
    /\ wpc' = [wpc EXCEPT ![w] = "pub"]
    /\ UNCHANGED <<ring_size, pointers, current_read_pointer, current_write_pointer, idx, p, ncalls, rvars>>

\* a publication of the write cursor instead of idx
WPubCursor(w) ==
    /\ wpc[w] = "pub"
    /\ current_read_pointer' = current_write_pointer
    /\ wpc' = [wpc EXCEPT ![w] = "rel"]
    /\ UNCHANGED <<ring_size, pointers, pointer_usage, current_write_pointer, idx, p, ncalls, rvars>>

\* a publication that is left out
WPubSkip(w) ==
    /\ wpc[w] = "pub"
    /\ wpc' = [wpc EXCEPT ![w] = "rel"]
    /\ UNCHANGED <<ringvars, idx, p, ncalls, rvars>>

\* line 72: current_read_pointer = idx
WPub(w) ==
    /\ wpc[w] = "pub"
    /\ current_read_pointer' = idx[w]
    /\ wpc' = [wpc EXCEPT ![w] = "rel"]
    /\ UNCHANGED <<ring_size, pointers, pointer_usage, current_write_pointer, idx, p, ncalls, rvars>>

\* lines 74-75: pointer_usage[idx].fetch_sub(1); return *this
\* (idx and p go out of scope)
WRel(w) ==
    /\ wpc[w] = "rel"
    /\ pointer_usage' = [pointer_usage EXCEPT ![idx[w]] = @ - 1]
    /\ wpc' = [wpc EXCEPT ![w] = "idle"]
    /\ idx' = [idx EXCEPT ![w] = 0]
    /\ p' = [p EXCEPT ![w] = NullHandle]
    /\ UNCHANGED <<ring_size, pointers, current_read_pointer, current_write_pointer, ncalls, rvars>>

-----------------------------------------------------------------------------
(* atomic_shared_ptr_with_ring::operator std::shared_ptr<T>() : lines 79-94 *)

\* a load that always takes slot 0 instead of reading the published index
LoadSlot0(r) ==
    /\ ridx' = [ridx EXCEPT ![r] = 0]
    /\ rpc' = [rpc EXCEPT ![r] = "inc"]
    /\ UNCHANGED <<ringvars, wvars, result>>

\* line 82: idx = current_read_pointer.load()
Load(r) ==
    /\ ridx' = [ridx EXCEPT ![r] = current_read_pointer]
    /\ rpc' = [rpc EXCEPT ![r] = "inc"]
    /\ UNCHANGED <<ringvars, wvars, result>>

\* lines 133, 79-82: a reader thread calls the conversion operator and reads the index
RCall(r) ==
    /\ rpc[r] = "idle"
    /\ Load(r)

\* lines 81-82: the next pass of for (;;)
RLoad(r) ==
    /\ rpc[r] = "ld"
    /\ Load(r)

\* an increment that never looks at the value it observed
RIncNoCheck(r) ==
    /\ rpc[r] = "inc"
    /\ pointer_usage' = [pointer_usage EXCEPT ![ridx[r]] = @ + 1]
    /\ rpc' = [rpc EXCEPT ![r] = "copy"]
    /\ UNCHANGED <<ring_size, pointers, current_read_pointer, current_write_pointer, wvars, ridx, result>>

\* lines 83-85: usage = pointer_usage[idx].fetch_add(1); if (usage >= under_construction_label)
RInc(r) ==
    /\ rpc[r] = "inc"
    /\ pointer_usage' = [pointer_usage EXCEPT ![ridx[r]] = @ + 1]
    /\ rpc' = [rpc EXCEPT ![r] =
                 IF pointer_usage[ridx[r]] >= under_construction_label THEN "undo" ELSE "copy"]
    /\ UNCHANGED <<ring_size, pointers, current_read_pointer, current_write_pointer, wvars, ridx, result>>

\* a retry that leaves the reader's increment behind
RUndoSkip(r) ==
    /\ rpc[r] = "undo"
    /\ rpc' = [rpc EXCEPT ![r] = "ld"]
    /\ ridx' = [ridx EXCEPT ![r] = 0]
    /\ UNCHANGED <<ringvars, wvars, result>>

\* lines 86-87: pointer_usage[idx].fetch_sub(1); continue
\* (idx goes out of scope at the end of the pass)
RUndo(r) ==
    /\ rpc[r] = "undo"
    /\ pointer_usage' = [pointer_usage EXCEPT ![ridx[r]] = @ - 1]
    /\ rpc' = [rpc EXCEPT ![r] = "ld"]
    /\ ridx' = [ridx EXCEPT ![r] = 0]
    /\ UNCHANGED <<ring_size, pointers, current_read_pointer, current_write_pointer, wvars, result>>

\* line 90: result = pointers[idx]; a copy that overlaps line 68 on the same
\* slot is a data race and may yield the old handle, the new one or garbage
RCopy(r) ==
    /\ rpc[r] = "copy"
    /\ IF \E w \in Writers : InWindow(w, ridx[r])
       THEN \E h \in {pointers[ridx[r]], NullHandle} \cup {p[w] : w \in Writers} :
                result' = [result EXCEPT ![r] = h]
       ELSE result' = [result EXCEPT ![r] = pointers[ridx[r]]]
    /\ rpc' = [rpc EXCEPT ![r] = "rel"]
    /\ UNCHANGED <<ringvars, wvars, ridx>>

\* a return that leaves the reader's increment behind
RRelSkip(r) ==
    /\ rpc[r] = "rel"
    /\ rpc' = [rpc EXCEPT ![r] = "idle"]
    /\ ridx' = [ridx EXCEPT ![r] = 0]
    /\ result' = [result EXCEPT ![r] = NullHandle]
    /\ UNCHANGED <<ringvars, wvars>>

\* lines 91-92: pointer_usage[idx].fetch_sub(1); return result
\* (the locals go out of scope; the caller receives result)
RRel(r) ==
    /\ rpc[r] = "rel"
    /\ pointer_usage' = [pointer_usage EXCEPT ![ridx[r]] = @ - 1]
    /\ rpc' = [rpc EXCEPT ![r] = "idle"]
    /\ ridx' = [ridx EXCEPT ![r] = 0]
    /\ result' = [result EXCEPT ![r] = NullHandle]
    /\ UNCHANGED <<ring_size, pointers, current_read_pointer, current_write_pointer, wvars>>

-----------------------------------------------------------------------------
(* History variables.  They record facts about the past of a behaviour that *)
(* the claims speak about; no action of the program reads them.             *)

\* the number of operator= calls of writer u that have executed line 72
PubCount(u) == IF wpc[u] \in {"rel", "idle"} \/ ncalls[u] = 0 THEN ncalls[u] ELSE ncalls[u] - 1

\* the handles published so far, as counts: entry 0 stands for the initial handle
PubCounts == [v \in 0..writer_count |-> IF v = 0 THEN 1 ELSE PubCount(v)]

Max(a, b) == IF a >= b THEN a ELSE b

NoCounts == [v \in 0..writer_count |-> 0]

\* before[w]: the handles published before writer w's own publication (line 72),
\* kept until w returns
NotePub(w) == before' = [before EXCEPT ![w] = PubCounts]

\* sup: the handles published before the publication of an operator= call that
\* has returned (line 75)
NoteReturn(w) ==
    /\ sup' = [v \in 0..writer_count |-> Max(sup[v], before[w][v])]
    /\ before' = [before EXCEPT ![w] = NoCounts]

\* stale[r]: sup at the first step of reader r's load
NoteLoad(r) == stale' = [stale EXCEPT ![r] = sup]

NoteLoaded(r) == stale' = [stale EXCEPT ![r] = NoCounts]

\* seen[r]: the handles that pointers[current_read_pointer] has held since the
\* first step of reader r's load
NotePublished ==
    seen' = [r \in Readers |->
               IF rpc'[r] = "idle" THEN {}
               ELSE IF rpc[r] = "idle" THEN {pointers[current_read_pointer]}
               ELSE seen[r] \cup {pointers'[current_read_pointer']}]

\* closed: the handle written by the writer that last left its
\* exclusive-construction window (line 70)
NoteClosed(w) == closed' = p[w]

\* published: the handle of the operator= call that last stored its index
\* into current_read_pointer (line 72)
NotePublication(w) == published' = p[w]

\* prev[r]: the handle returned by reader r's latest completed load (line 92)
NoteResult(r) == prev' = [prev EXCEPT ![r] = result[r]]

\* held[r][i]: what the steps of reader r have added to pointer_usage[i], net
NoteHeld(r) ==
    held' = [held EXCEPT ![r] =
                [i \in Slots |-> held[r][i] + pointer_usage'[i] - pointer_usage[i]]]

-----------------------------------------------------------------------------
(* naive_atomic_shared_ptr_with_mutex : lines 10-31 *)

\* lines 15, 123: a writer thread calls operator=
MWCall(w) ==
    /\ mwpc[w] = "idle"
    /\ mwpc' = [mwpc EXCEPT ![w] = "lock"]
    /\ UNCHANGED <<mutex, pointer, mrpc, mres, mlast, mexp>>

\* a lock_guard that does not wait for the mutex
MWLockNoWait(w) ==
    /\ mwpc[w] = "lock"
    /\ mutex' = TRUE
    /\ mwpc' = [mwpc EXCEPT ![w] = "cs"]
    /\ UNCHANGED <<pointer, mrpc, mres, mlast, mexp>>

\* line 17: std::lock_guard guard(mutex) returns once the mutex is free
MWLock(w) ==
    /\ mwpc[w] = "lock"
    /\ mutex = FALSE
    /\ mutex' = TRUE
    /\ mwpc' = [mwpc EXCEPT ![w] = "cs"]
    /\ UNCHANGED <<pointer, mrpc, mres, mlast, mexp>>

\* line 18: pointer = p (the writer's handle, line 120)
MWStore(w) ==
    /\ mwpc[w] = "cs"
    /\ pointer' = <<w, 0>>
    /\ mwpc' = [mwpc EXCEPT ![w] = "unlock"]
    /\ UNCHANGED <<mutex, mrpc, mres, mlast, mexp>>

\* lines 19-20: the guard's destructor unlocks; return *this
\* (mlast records the store of the critical section that ends here)
MWUnlock(w) ==
    /\ mwpc[w] = "unlock"
    /\ mutex' = FALSE
    /\ mwpc' = [mwpc EXCEPT ![w] = "idle"]
    /\ mlast' = pointer
    /\ UNCHANGED <<pointer, mrpc, mres, mexp>>

\* lines 23, 133: a reader thread calls the conversion operator
MRCall(r) ==
    /\ mrpc[r] = "idle"
    /\ mrpc' = [mrpc EXCEPT ![r] = "lock"]
    /\ UNCHANGED <<mutex, pointer, mwpc, mres, mlast, mexp>>

\* line 24: std::lock_guard guard(mutex) returns once the mutex is free
\* (mexp records the last store completed before this critical section)
MRLock(r) ==
    /\ mrpc[r] = "lock"
    /\ mutex = FALSE
    /\ mutex' = TRUE
    /\ mrpc' = [mrpc EXCEPT ![r] = "cs"]
    /\ mexp' = [mexp EXCEPT ![r] = mlast]
    /\ UNCHANGED <<pointer, mwpc, mres, mlast>>

\* line 25: the return value is copied from pointer
MRCopy(r) ==
    /\ mrpc[r] = "cs"
    /\ mres' = [mres EXCEPT ![r] = pointer]
    /\ mrpc' = [mrpc EXCEPT ![r] = "unlock"]
    /\ UNCHANGED <<mutex, pointer, mwpc, mlast, mexp>>

\* line 26: the guard's destructor unlocks; the copy is returned
MRUnlock(r) ==
    /\ mrpc[r] = "unlock"
    /\ mutex' = FALSE
    /\ mrpc' = [mrpc EXCEPT ![r] = "idle"]
    /\ UNCHANGED <<pointer, mwpc, mres, mlast, mexp>>

-----------------------------------------------------------------------------
(* Specifications *)

WStep(w) ==
    \/ WFetch(w) \/ WInc(w) \/ WChk(w) \/ WUndo(w) \/ WCas(w)
    \/ WWrite(w) \/ WDown(w) \/ WPub(w) \/ WRel(w)

RStep(r) ==
    \/ RLoad(r) \/ RInc(r) \/ RUndo(r) \/ RCopy(r) \/ RRel(r)

\* a step of the ring that records no history
Plain(A) == A /\ UNCHANGED <<histvars, solo, cellvars, auditvars>>

\* the ring under test by run_test (lines 108-137): writer_count writers and
\* NumReaders readers, MaxAssigns operator= calls in all
Next ==
    \/ \E w \in Writers : Plain(WCall(w, MaxAssigns))
    \/ \E w \in Writers : Plain(WFetch(w))
    \/ \E w \in Writers : Plain(WInc(w))
    \/ \E w \in Writers : Plain(WChk(w))
    \/ \E w \in Writers : Plain(WUndo(w))
    \/ \E w \in Writers : Plain(WCas(w))
    \/ \E w \in Writers : Plain(WCasSpurious(w))
    \/ \E w \in Writers : Plain(WWrite(w))
    \/ \E w \in Writers : Plain(WDown(w))
    \/ \E w \in Writers : Plain(WPub(w))
    \/ \E w \in Writers : Plain(WRel(w))
    \/ \E r \in Readers : Plain(RCall(r))
    \/ \E r \in Readers : Plain(RLoad(r))
    \/ \E r \in Readers : Plain(RInc(r))
    \/ \E r \in Readers : Plain(RUndo(r))
    \/ \E r \in Readers : Plain(RCopy(r))
    \/ \E r \in Readers : Plain(RRel(r))

Spec == Init /\ [][Next]_vars

\* the same program, with the history of returned operator= calls recorded
Fresh(A) == A /\ UNCHANGED <<sup, before, stale, seen, solo, cellvars, auditvars>>

FreshNext ==
    \/ \E w \in Writers : Fresh(WCall(w, MaxAssigns))
    \/ \E w \in Writers : Fresh(WFetch(w))
    \/ \E w \in Writers : Fresh(WInc(w))
    \/ \E w \in Writers : Fresh(WChk(w))
    \/ \E w \in Writers : Fresh(WUndo(w))
    \/ \E w \in Writers : Fresh(WCas(w))
    \/ \E w \in Writers : Fresh(WCasSpurious(w))
    \/ \E w \in Writers : Fresh(WWrite(w))
    \/ \E w \in Writers : Fresh(WDown(w))
    \/ \E w \in Writers : WPub(w) /\ NotePub(w) /\ UNCHANGED <<sup, stale, seen, solo, cellvars, auditvars>>
    \/ \E w \in Writers : WRel(w) /\ NoteReturn(w) /\ UNCHANGED <<stale, seen, solo, cellvars, auditvars>>
    \/ \E r \in Readers : RCall(r) /\ NoteLoad(r) /\ UNCHANGED <<sup, before, seen, solo, cellvars, auditvars>>
    \/ \E r \in Readers : Fresh(RLoad(r))
    \/ \E r \in Readers : Fresh(RInc(r))
    \/ \E r \in Readers : Fresh(RUndo(r))
    \/ \E r \in Readers : Fresh(RCopy(r))
    \/ \E r \in Readers : RRel(r) /\ NoteLoaded(r) /\ UNCHANGED <<sup, before, seen, solo, cellvars, auditvars>>

FreshSpec == Init /\ [][FreshNext]_vars

\* the same program, with the history of published handles recorded
Recorded(A) == A /\ NotePublished /\ UNCHANGED <<sup, before, stale, solo, cellvars, auditvars>>

PubNext ==
    \/ \E w \in Writers : Recorded(WCall(w, MaxAssigns))
    \/ \E w \in Writers : Recorded(WFetch(w))
    \/ \E w \in Writers : Recorded(WInc(w))
    \/ \E w \in Writers : Recorded(WChk(w))
    \/ \E w \in Writers : Recorded(WUndo(w))
    \/ \E w \in Writers : Recorded(WCas(w))
    \/ \E w \in Writers : Recorded(WCasSpurious(w))
    \/ \E w \in Writers : Recorded(WWrite(w))
    \/ \E w \in Writers : Recorded(WDown(w))
    \/ \E w \in Writers : Recorded(WPub(w))
    \/ \E w \in Writers : Recorded(WRel(w))
    \/ \E r \in Readers : Recorded(RCall(r))
    \/ \E r \in Readers : Recorded(RLoad(r))
    \/ \E r \in Readers : Recorded(RInc(r))
    \/ \E r \in Readers : Recorded(RUndo(r))
    \/ \E r \in Readers : Recorded(RCopy(r))
    \/ \E r \in Readers : Recorded(RRel(r))

PubSpec == Init /\ [][PubNext]_vars

\* the same program, with the closed windows and the publications recorded
Audited(A) == A /\ UNCHANGED <<histvars, solo, cellvars, closed, published, prev, lone, passes, held>>

AuditNext ==
    \/ \E w \in Writers : Audited(WCall(w, MaxAssigns))
    \/ \E w \in Writers : Audited(WFetch(w))
    \/ \E w \in Writers : Audited(WInc(w))
    \/ \E w \in Writers : Audited(WChk(w))
    \/ \E w \in Writers : Audited(WUndo(w))
    \/ \E w \in Writers : Audited(WCas(w))
    \/ \E w \in Writers : Audited(WCasSpurious(w))
    \/ \E w \in Writers : Audited(WWrite(w))
    \/ \E w \in Writers : WDown(w) /\ NoteClosed(w) /\ UNCHANGED <<histvars, solo, cellvars, published, prev, lone, passes, held>>
    \/ \E w \in Writers : WPub(w) /\ NotePublication(w) /\ UNCHANGED <<histvars, solo, cellvars, closed, prev, lone, passes, held>>
    \/ \E w \in Writers : Audited(WRel(w))
    \/ \E r \in Readers : Audited(RCall(r))
    \/ \E r \in Readers : Audited(RLoad(r))
    \/ \E r \in Readers : Audited(RInc(r))
    \/ \E r \in Readers : Audited(RUndo(r))
    \/ \E r \in Readers : Audited(RCopy(r))
    \/ \E r \in Readers : Audited(RRel(r))

AuditSpec == Init /\ [][AuditNext]_vars

\* one writer thread assigns (its n-th call passes the handle <<1, n>>) while
\* the readers load again and again; every returned handle is recorded
Mono(A) == A /\ UNCHANGED <<histvars, solo, cellvars, auditvars>>

MonoNext ==
    \/ \E w \in {1} : Mono(WCall(w, MaxAssigns))
    \/ \E w \in {1} : Mono(WFetch(w))
    \/ \E w \in {1} : Mono(WInc(w))
    \/ \E w \in {1} : Mono(WChk(w))
    \/ \E w \in {1} : Mono(WUndo(w))
    \/ \E w \in {1} : Mono(WCas(w))
    \/ \E w \in {1} : Mono(WCasSpurious(w))
    \/ \E w \in {1} : Mono(WWrite(w))
    \/ \E w \in {1} : Mono(WDown(w))
    \/ \E w \in {1} : Mono(WPub(w))
    \/ \E w \in {1} : Mono(WRel(w))
    \/ \E r \in Readers : Mono(RCall(r))
    \/ \E r \in Readers : Mono(RLoad(r))
    \/ \E r \in Readers : Mono(RInc(r))
    \/ \E r \in Readers : Mono(RUndo(r))
    \/ \E r \in Readers : Mono(RCopy(r))
    \/ \E r \in Readers : RRel(r) /\ NoteResult(r) /\ UNCHANGED <<histvars, solo, cellvars, closed, published, lone, passes, held>>

MonoSpec == Init /\ [][MonoNext]_vars

\* the writers of run_test loop forever (lines 121-124) and the readers load
\* again and again (lines 132-135).  Every thread that is inside an
\* operation keeps being scheduled; compare_exchange_weak may fail although
\* the value matches (line 62), but a writer that reaches line 62 again and
\* again is not failed that way every time.  The run is followed from a ring
\* that has been in use for long: no step of either operation depends on the
\* handles the slots hold.
LiveInit == Aged(default_ring_size, -1) /\ ConstructCell /\ Threads /\ History

LiveNext ==
    \/ \E w \in Writers : Plain(WCallAgain(w))
    \/ \E w \in Writers : Plain(WFetch(w))
    \/ \E w \in Writers : Plain(WInc(w))
    \/ \E w \in Writers : Plain(WChk(w))
    \/ \E w \in Writers : Plain(WUndo(w))
    \/ \E w \in Writers : Plain(WCas(w))
    \/ \E w \in Writers : Plain(WCasSpurious(w))
    \/ \E w \in Writers : Plain(WWrite(w))
    \/ \E w \in Writers : Plain(WDown(w))
    \/ \E w \in Writers : Plain(WPub(w))
    \/ \E w \in Writers : Plain(WRel(w))
    \/ \E r \in Readers : Plain(RCall(r))
    \/ \E r \in Readers : Plain(RLoad(r))
    \/ \E r \in Readers : Plain(RInc(r))
    \/ \E r \in Readers : Plain(RUndo(r))
    \/ \E r \in Readers : Plain(RCopy(r))
    \/ \E r \in Readers : Plain(RRel(r))

Scheduled ==
    /\ \A w \in Writers : WF_vars(Plain(WStep(w)))
    /\ \A r \in Readers : WF_vars(Plain(RStep(r)))
    /\ \A w \in Writers : SF_vars(Plain(WCas(w)))

LiveSpec == LiveInit /\ [][LiveNext]_vars /\ Scheduled

\* at any moment every thread but reader r may stop for good
Stop(r) ==
    /\ solo = 0
    /\ solo' = r
    /\ UNCHANGED <<ringvars, wvars, rvars, histvars, cellvars, auditvars>>

Running(A) == solo = 0 /\ Plain(A)

Alone(r, A) == solo = r /\ Plain(A)

SoloNext ==
    \/ \E w \in Writers : Running(WCall(w, MaxAssigns))
    \/ \E w \in Writers : Running(WFetch(w))
    \/ \E w \in Writers : Running(WInc(w))
    \/ \E w \in Writers : Running(WChk(w))
    \/ \E w \in Writers : Running(WUndo(w))
    \/ \E w \in Writers : Running(WCas(w))
    \/ \E w \in Writers : Running(WCasSpurious(w))
    \/ \E w \in Writers : Running(WWrite(w))
    \/ \E w \in Writers : Running(WDown(w))
    \/ \E w \in Writers : Running(WPub(w))
    \/ \E w \in Writers : Running(WRel(w))
    \/ \E r \in Readers : Running(RCall(r))
    \/ \E r \in Readers : Running(RLoad(r))
    \/ \E r \in Readers : Running(RInc(r))
    \/ \E r \in Readers : Running(RUndo(r))
    \/ \E r \in Readers : Running(RCopy(r))
    \/ \E r \in Readers : Running(RRel(r))
    \/ \E r \in Readers : Stop(r)
    \/ \E r \in Readers : Alone(r, RCall(r))
    \/ \E r \in Readers : Alone(r, RLoad(r))
    \/ \E r \in Readers : Alone(r, RInc(r))
    \/ \E r \in Readers : Alone(r, RUndo(r))
    \/ \E r \in Readers : Alone(r, RCopy(r))
    \/ \E r \in Readers : Alone(r, RRel(r))

SoloSpec == Init /\ [][SoloNext]_vars /\ \A r \in Readers : WF_vars(Plain(RStep(r)))

\* one thread assigns (lines 119-124), and operations never overlap: an
\* operation starts only when no other is in flight.  The ring size is any
\* of 2..MaxSeqRing, and the ring is new or aged.  (A load that runs alone
\* never reaches lines 86-87.)
Quiet == (\A w \in Writers : wpc[w] = "idle") /\ (\A r \in Readers : rpc[r] = "idle")

SeqInit ==
    /\ \E n \in 2..MaxSeqRing : Construct(n) \/ \E c \in AgedCursors : Aged(n, c)
    /\ ConstructCell /\ Threads /\ History

SeqNext ==
    \/ \E w \in {1} : Plain(Quiet /\ WCall(w, MaxSeqAssigns))
    \/ \E w \in {1} : Plain(WFetch(w))
    \/ \E w \in {1} : Plain(WInc(w))
    \/ \E w \in {1} : Plain(WChk(w))
    \/ \E w \in {1} : Plain(WUndo(w))
    \/ \E w \in {1} : Plain(WCas(w))
    \/ \E w \in {1} : Plain(InReach(current_write_pointer) /\ WCasSpurious(w))
    \/ \E w \in {1} : Plain(WWrite(w))
    \/ \E w \in {1} : Plain(WDown(w))
    \/ \E w \in {1} : Plain(WPub(w))
    \/ \E w \in {1} : Plain(WRel(w))
    \/ \E r \in Readers : Plain(Quiet /\ RCall(r))
    \/ \E r \in Readers : Plain(RInc(r))
    \/ \E r \in Readers : Plain(RCopy(r))
    \/ \E r \in Readers : Plain(RRel(r))

SeqSpec == SeqInit /\ [][SeqNext]_vars

\* an arbitrary concurrent history on a new or aged ring of any size
\* 2..default_ring_size; then,
\* from a state with no operation in flight, one writer runs one more
\* operator= call alone (the compare-exchange failing only on a mismatch)
\* and the passes of its retry loop are counted
AloneInit ==
    /\ \E n \in 2..default_ring_size : Construct(n) \/ \E c \in AgedCursors : Aged(n, c)
    /\ ConstructCell /\ Threads /\ History

Earlier(A) == lone = 0 /\ A /\ UNCHANGED <<histvars, solo, cellvars, auditvars>>

Later(w, A) ==
    /\ lone = w
    /\ A
    /\ UNCHANGED <<histvars, solo, cellvars, closed, published, prev, lone, passes, held>>

\* lines 43-48: the call that runs alone starts its first pass
StartAlone(w) ==
    /\ lone = 0
    /\ Quiet
    /\ WCall(w, MaxEarlier + 1)
    /\ lone' = w
    /\ passes' = 1
    /\ UNCHANGED <<histvars, solo, cellvars, closed, published, prev, held>>

\* lines 45-48: the call that runs alone starts another pass
NextPass(w) ==
    /\ lone = w
    /\ WFetch(w)
    /\ passes' = passes + 1
    /\ UNCHANGED <<histvars, solo, cellvars, closed, published, prev, lone, held>>

AloneNext ==
    \/ \E w \in Writers : Earlier(WCall(w, MaxEarlier))
    \/ \E w \in Writers : Earlier(InReach(current_write_pointer) /\ WFetch(w))
    \/ \E w \in Writers : Earlier(WInc(w))
    \/ \E w \in Writers : Earlier(WChk(w))
    \/ \E w \in Writers : Earlier(WUndo(w))
    \/ \E w \in Writers : Earlier(WCas(w))
    \/ \E w \in Writers : Earlier(WCasSpurious(w))
    \/ \E w \in Writers : Earlier(WWrite(w))
    \/ \E w \in Writers : Earlier(WDown(w))
    \/ \E w \in Writers : Earlier(WPub(w))
    \/ \E w \in Writers : Earlier(WRel(w))
    \/ \E r \in Readers : Earlier(RCall(r))
    \/ \E r \in Readers : Earlier(RLoad(r))
    \/ \E r \in Readers : Earlier(RInc(r))
    \/ \E r \in Readers : Earlier(RUndo(r))
    \/ \E r \in Readers : Earlier(RCopy(r))
    \/ \E r \in Readers : Earlier(RRel(r))
    \/ \E w \in Writers : StartAlone(w)
    \/ \E w \in Writers : NextPass(w)
    \/ \E w \in Writers : Later(w, WInc(w))
    \/ \E w \in Writers : Later(w, WChk(w))
    \/ \E w \in Writers : Later(w, WUndo(w))
    \/ \E w \in Writers : Later(w, WCas(w))
    \/ \E w \in Writers : Later(w, WWrite(w))
    \/ \E w \in Writers : Later(w, WDown(w))
    \/ \E w \in Writers : Later(w, WPub(w))
    \/ \E w \in Writers : Later(w, WRel(w))

AloneSpec == AloneInit /\ [][AloneNext]_vars

\* the same program, with every reader's effect on the usage counters recorded
Framed(A) == A /\ UNCHANGED <<histvars, solo, cellvars, auditvars>>

Counted(r, A) ==
    A /\ NoteHeld(r) /\ UNCHANGED <<histvars, solo, cellvars, closed, published, prev, lone, passes>>

FrameNext ==
    \/ \E w \in Writers : Framed(WCall(w, MaxAssigns))
    \/ \E w \in Writers : Framed(WFetch(w))
    \/ \E w \in Writers : Framed(WInc(w))
    \/ \E w \in Writers : Framed(WChk(w))
    \/ \E w \in Writers : Framed(WUndo(w))
    \/ \E w \in Writers : Framed(WCas(w))
    \/ \E w \in Writers : Framed(WCasSpurious(w))
    \/ \E w \in Writers : Framed(WWrite(w))
    \/ \E w \in Writers : Framed(WDown(w))
    \/ \E w \in Writers : Framed(WPub(w))
    \/ \E w \in Writers : Framed(WRel(w))
    \/ \E r \in Readers : Counted(r, RCall(r))
    \/ \E r \in Readers : Counted(r, RLoad(r))
    \/ \E r \in Readers : Counted(r, RInc(r))
    \/ \E r \in Readers : Counted(r, RUndo(r))
    \/ \E r \in Readers : Counted(r, RCopy(r))
    \/ \E r \in Readers : Counted(r, RRel(r))

FrameSpec == Init /\ [][FrameNext]_vars

\* a step of the mutex cell
Cell(A) == A /\ UNCHANGED <<ringvars, wvars, rvars, histvars, solo, auditvars>>

\* the mutex cell under test by run_test
CellNext ==
    \/ \E w \in Writers : Cell(MWCall(w))
    \/ \E w \in Writers : Cell(MWLock(w))
    \/ \E w \in Writers : Cell(MWStore(w))
    \/ \E w \in Writers : Cell(MWUnlock(w))
    \/ \E r \in Readers : Cell(MRCall(r))
    \/ \E r \in Readers : Cell(MRLock(r))
    \/ \E r \in Readers : Cell(MRCopy(r))
    \/ \E r \in Readers : Cell(MRUnlock(r))

CellSpec == Init /\ [][CellNext]_vars

-----------------------------------------------------------------------------
(* Claims *)

\* reader r has passed the usage check of line 85 and not yet executed line 91
Copying(r, i) == rpc[r] \in {"copy", "rel"} /\ ridx[r] = i

\* the operator= call that passed handle h has won the compare-exchange of line 62
Acquired(h) ==
    \E w \in Writers :
        /\ h[1] = w /\ 1 <= h[2] /\ h[2] <= ncalls[w]
        /\ h[2] = ncalls[w] => wpc[w] \in {"write", "down", "pub", "rel", "idle"}

\* C1: no reader is between its usage check and its decrement on a slot
\* while a writer is between its compare-exchange and its subtraction of
\* under_construction_label on the same slot.
C1_NoCopyInWindow ==
    \A r \in Readers : \A w \in Writers : ~(Copying(r, ridx[r]) /\ InWindow(w, ridx[r]))

\* a reader copies a slot on which a writer holds a provisional reference
\* and has been refused the exclusive window
C1_Witness ==
    \E r \in Readers : \E w \in Writers :
        /\ rpc[r] = "copy" /\ wpc[w] = "undo" /\ idx[w] = ridx[r]
        /\ idx[w] # current_read_pointer

\* C2: the handle a load is about to return is the initial handle or the
\* handle of an operator= call that has won its compare-exchange; it is never
\* empty, and its value is one of 0..writer_count (a bucket of the histogram).
C2_LoadedValues ==
    \A r \in Readers :
        rpc[r] = "rel" =>
            /\ result[r] = InitHandle \/ Acquired(result[r])
            /\ result[r] # NullHandle
            /\ result[r][1] \in 0..writer_count

\* a load returns the handle of an operator= call that is still in progress
C2_Witness ==
    \E r \in Readers : \E w \in Writers :
        rpc[r] = "rel" /\ wpc[w] = "pub" /\ result[r] = p[w]

\* C3: at most one writer is inside the exclusive-construction window of a slot.
C3_Exclusive ==
    \A i \in Slots : Cardinality({w \in Writers : InWindow(w, i)}) <= 1

\* a writer is inside the window of a slot on which another writer holds a
\* provisional reference
C3_Witness ==
    \E w \in Writers : \E u \in Writers \ {w} :
        InWindow(w, idx[w]) /\ wpc[u] \in {"chk", "cas", "undo"} /\ idx[u] = idx[w]

\* C4: a load whose first step came after the return of an operator= call
\* returns that call's handle or the handle of a call that publishes after it
\* (operator= calls ordered by their publication, line 72): never a handle
\* published before it, and never the initial handle.
C4_Fresh ==
    \A r \in Readers :
        rpc[r] = "rel" =>
            /\ result[r][1] \in 0..writer_count
            /\ result[r][2] >= stale[r][result[r][1]]
            /\ result[r] = InitHandle => stale[r][0] = 0
            /\ result[r] # InitHandle => result[r][2] > stale[r][result[r][1]]

\* a load that started after one writer's operator= returned is about to
\* return the handle of the other writer's later call
C4_Witness ==
    \E r \in Readers : \E w \in Writers :
        /\ rpc[r] = "rel" /\ stale[r][0] = 1
        /\ ncalls[w] >= 1 /\ wpc[w] = "idle" /\ result[r][1] \notin {0, w}

\* C5: the handle a load returns was held by pointers[current_read_pointer]
\* at some instant between the first step of the load and its return.
C5_PublishedDuringLoad ==
    \A r \in Readers : rpc[r] = "rel" => result[r] \in seen[r]

\* C6: with fewer writers than slots and every thread scheduled fairly,
\* every operator= call eventually returns.
C6_EveryAssignReturns ==
    \A w \in Writers : (wpc[w] # "idle") ~> (wpc[w] = "idle")

\* C7: once every other thread has stopped, a load in progress returns.
C7_SoloLoadReturns ==
    \A r \in Readers : (solo = r /\ rpc[r] # "idle") ~> (rpc[r] = "idle")

\* C8: every load eventually returns.
C8_EveryLoadReturns ==
    \A r \in Readers : (rpc[r] # "idle") ~> (rpc[r] = "idle")

\* C9: with no operation running concurrently, a load issued after the last
\* operator= call returned is about to return the handle of that call.
C9_Sequential ==
    \A r \in Readers :
        (rpc[r] = "rel" /\ ncalls[1] >= 1) => result[r] = <<1, ncalls[1]>>

\* ring size 4, five calls: the fifth handle is loaded after the ring wrapped
C9_Witness ==
    \E r \in Readers :
        /\ ring_size = 4 /\ ncalls[1] = 5 /\ rpc[r] = "rel" /\ result[r] = <<1, 5>>

\* the threads inside a critical section of the mutex cell
InCS == {<<"w", w>> : w \in {u \in Writers : mwpc[u] \in {"cs", "unlock"}}}
        \cup {<<"r", r>> : r \in {u \in Readers : mrpc[u] \in {"cs", "unlock"}}}

\* C10: critical sections of the mutex cell never overlap, and a load
\* returns the handle stored by the last operator= whose critical section
\* ended before the load's critical section began (initially the
\* constructor's handle).
C10_Register ==
    /\ Cardinality(InCS) <= 1
    /\ \A r \in Readers : mrpc[r] = "unlock" => mres[r] = mexp[r]

\* a load returns a writer's handle while that writer waits for the lock
\* with its next operator= call
C10_Witness ==
    \E r \in Readers : \E w \in Writers :
        mrpc[r] = "unlock" /\ mres[r] = <<w, 0>> /\ mwpc[w] = "lock"

\* C11: no writer is inside the exclusive-construction window of the slot
\* that current_read_pointer names, and the usage counter of that slot is
\* below under_construction_label.
C11_PublishedNotInWindow ==
    /\ \A w \in Writers : ~InWindow(w, current_read_pointer)
    /\ pointer_usage[current_read_pointer] < under_construction_label

\* C12: pointers[current_read_pointer] is the handle written by the writer
\* that most recently closed an exclusive-construction window (initially the
\* constructor's handle); while that writer has not yet stored its index
\* (between lines 70 and 72) the handle of the last publication is accepted
\* as well.
C12_PublishedIsLatest ==
    pointers[current_read_pointer] \in {closed, published}

\* C13: when a writer is about to store its index into current_read_pointer
\* (line 72) and until its final decrement (line 74), the window on its slot
\* is closed (no writer inside, usage below under_construction_label) and
\* the slot holds the handle this writer wrote.
C13_PublishAfterWindow ==
    \A w \in Writers :
        wpc[w] \in {"pub", "rel"} =>
            /\ pointers[idx[w]] = p[w]
            /\ pointer_usage[idx[w]] < under_construction_label
            /\ \A u \in Writers : ~InWindow(u, idx[w])

\* a writer has just published its slot while the other writer, holding a
\* provisional reference on the same slot, is at its compare-exchange
C13_Witness ==
    \E w \in Writers : \E u \in Writers \ {w} :
        /\ wpc[w] = "rel" /\ current_read_pointer = idx[w]
        /\ wpc[u] = "cas" /\ idx[u] = idx[w]

C15_UsageAccounting ==
    \A i \in Slots :
        LET inside == {w \in Writers : InWindow(w, i)}
        IN  /\ Cardinality(inside) <= 1
            /\ pointer_usage[i] = Cardinality(Holders(i))
                                  + under_construction_label * Cardinality(inside)
            /\ pointer_usage[i] >= 0
            /\ pointer_usage[i] = 0 <=> Holders(i) = {}
            /\ Quiet => pointer_usage[i] = 0

\* a slot counts the writer inside its window, the label and a reader that
\* incremented it
C15_Witness ==
    \E i \in Slots : \E w \in Writers : \E r \in Readers :
        /\ InWindow(w, i) /\ RHolds(r, i)
        /\ pointer_usage[i] = under_construction_label + 2

\* C16: with a single writer whose n-th call assigns the n-th value, the
\* handle a load is about to return is not older than the handle the same
\* reader's previous load returned.
C16_MonotonicReads ==
    \A r \in Readers :
        (rpc[r] = "rel" /\ prev[r] # NullHandle) => result[r][2] >= prev[r][2]

\* C17: an operator= call that starts when no operation is in flight and
\* runs alone makes at most two passes of its loop: a pass is refused only
\* at line 53 (the cursor landed on current_read_pointer), only the first
\* pass is refused, and the call has returned once it is idle again.
C17_TwoPasses ==
    \A w \in Writers :
        lone = w =>
            /\ passes <= 2
            /\ wpc[w] \in {"undo", "fetch"} => passes = 1
            /\ wpc[w] = "undo" => idx[w] = current_read_pointer

\* C18: no step of a load changes current_read_pointer, the write cursor or
\* a slot's handle, and whenever a reader is outside a pass (it has returned,
\* is about to retry or has not yet incremented) its net effect on every
\* usage counter is zero; inside a pass it has added exactly 1, to the slot
\* it indexes.
C18_LoadFrame ==
    /\ [][\A r \in Readers :
             (RCall(r) \/ RStep(r)) =>
                 UNCHANGED <<current_read_pointer, current_write_pointer, pointers>>]_vars
    /\ [](\A r \in Readers : \A i \in Slots :
             held[r][i] = IF RHolds(r, i) THEN 1 ELSE 0)

\* a reader that met the label is about to retry and has taken its increment
\* back: the slot under construction counts only its writer
C18_Witness ==
    \E r \in Readers : \E w \in Writers :
        /\ rpc[r] = "ld" /\ wpc[w] \in {"write", "down"}
        /\ pointer_usage[idx[w]] = under_construction_label + 1
        /\ \A i \in Slots : held[r][i] = 0

====
